---- MODULE Spec2Model ----
(***************************************************************************)
(* Masterblog API (src/backend/backend_app.py): blog posts kept in a JSON  *)
(* file, with list / get / create / update / delete / search handlers.     *)
(* Every handler loads the whole file, works on the loaded list and, for a *)
(* mutation, writes the whole list back.                                   *)
(*                                                                         *)
(* Strings are sequences of one-character strings, so that strip(),        *)
(* lower() and the JSON escaping are computed, not assumed.                *)
(***************************************************************************)
EXTENDS Integers, Sequences, FiniteSets

VARIABLES
    file,       \* DATA_FILE: [exists, text]; text is the JSON text when it exists
    req,        \* the request being answered: [op, id, isJson, data]; data is the
                \* JSON body, or the query parameters of a search
    res,        \* the response to it: [status, body]
    allocated,  \* history: the ids that successful Creates have returned so far
    fresh,      \* history: the ids returned by a Create since the maximum was last deleted
    reused,     \* history: the last successful Create returned an id returned before
    torn,       \* a write of the file failed after the file was opened: its text
                \* is cut short and is not JSON (SpecIO)
    proc        \* the two requests being handled at the same time (SpecConc):
                \* for each, where it is, its request, the list it loaded and
                \* its response

vars == <<file, req, res, allocated, fresh, reused, torn, proc>>

----------------------------------------------------------------------------
(* Bounds of the model.                                                    *)

\* Create is not offered once the id it would assign exceeds this (Spec).
MaxId == 4

\* A Create is not begun once the id it would assign exceeds this (SpecConc).
MaxIdConc == 2

\* The longest collection SpecRoundTrip saves.
MaxSaved == 2

\* The same cap for the Create/Delete specification SpecIds.
MaxIdIds == 6

----------------------------------------------------------------------------
(* Strings.                                                                *)

\* Characters str.strip() removes.
IsSpace(c) == c \in {" ", "\t", "\n", "\r"}

\* A mutation of Strip: the value is used as it was sent.
StripNothing(s) == s

RECURSIVE LStrip(_)
LStrip(s) == IF s # <<>> /\ IsSpace(Head(s)) THEN LStrip(Tail(s)) ELSE s

RECURSIVE RStrip(_)
RStrip(s) ==
    IF s # <<>> /\ IsSpace(s[Len(s)]) THEN RStrip(SubSeq(s, 1, Len(s) - 1)) ELSE s

\* A mutation of Strip: only the leading whitespace is removed (lstrip).
StripLeft(s) == LStrip(s)

\* str.strip(): leading and trailing whitespace removed.
Strip(s) == RStrip(LStrip(s))

\* JSON values a request body carries for a key: a string or null.
JStr(s) == [kind |-> "str", val |-> s]
JNull == [kind |-> "null", val |-> <<>>]

\* str(v): a string is itself, None is "None".
PyStr(v) == IF v.kind = "null" THEN <<"N", "o", "n", "e">> ELSE v.val

\* (data.get(key) or ""): an absent key, null and "" all give "".
GetOrEmpty(data, key) ==
    IF key \in DOMAIN data /\ data[key].kind = "str" THEN data[key].val ELSE <<>>

\* str.lower() of one character, for the letters the model uses.
Upper == <<"A","B","C","D","E","F","G","H","I","J","K","L","M",
           "N","O","P","Q","R","S","T","U","V","W","X","Y","Z","É">>
LowerOf == <<"a","b","c","d","e","f","g","h","i","j","k","l","m",
             "n","o","p","q","r","s","t","u","v","w","x","y","z","é">>
LowerChar(c) ==
    IF \E k \in 1..Len(Upper) : Upper[k] = c
    THEN LowerOf[CHOOSE k \in 1..Len(Upper) : Upper[k] = c]
    ELSE c

\* str.lower().
Lower(s) == [i \in 1..Len(s) |-> LowerChar(s[i])]

\* needle in hay: hay has needle as a contiguous substring.
Contains(hay, needle) ==
    \E i \in 0..(Len(hay) - Len(needle)) :
        SubSeq(hay, i + 1, i + Len(needle)) = needle

\* (request.args.get(key) or ""): an absent parameter gives "".
ArgOrEmpty(args, key) == IF key \in DOMAIN args THEN args[key] ELSE <<>>

----------------------------------------------------------------------------
(* The JSON text of the data file.                                         *)

IsAscii(c) == c # "é"

\* A mutation of EscapeChar: only the quote is escaped.
EscapeCharQuoteOnly(c, ensureAscii) ==
    IF c = "\"" THEN <<"\\", "\"">>
    ELSE IF ensureAscii /\ ~IsAscii(c) THEN <<"\\", "u", "0", "0", "e", "9">>
    ELSE <<c>>

\* json.dumps of one character (ensure_ascii as given).
EscapeChar(c, ensureAscii) ==
    IF c = "\"" THEN <<"\\", "\"">>
    ELSE IF c = "\\" THEN <<"\\", "\\">>
    ELSE IF c = "\n" THEN <<"\\", "n">>
    ELSE IF c = "\t" THEN <<"\\", "t">>
    ELSE IF c = "\r" THEN <<"\\", "r">>
    ELSE IF ensureAscii /\ ~IsAscii(c) THEN <<"\\", "u", "0", "0", "e", "9">>
    ELSE <<c>>

\* Whether json.dumps writes the character as itself.
IsPlain(c, ensureAscii) == EscapeChar(c, ensureAscii) = <<c>>

\* json.dumps of the characters of a string: a run of plain characters is
\* copied, any other character is escaped.
RECURSIVE Escape(_, _)
Escape(s, ensureAscii) ==
    IF \A i \in 1..Len(s) : IsPlain(s[i], ensureAscii) THEN s
    ELSE EscapeChar(Head(s), ensureAscii) \o Escape(Tail(s), ensureAscii)

\* json.loads of the text of one string.
RECURSIVE Unescape(_)
Unescape(t) ==
    IF \A i \in 1..Len(t) : t[i] # "\\" THEN t
    ELSE IF Head(t) = "\\" /\ Len(t) >= 2
         THEN IF t[2] = "u" /\ Len(t) >= 6
              THEN <<"é">> \o Unescape(SubSeq(t, 7, Len(t)))
              ELSE <<CASE t[2] = "n" -> "\n"
                       [] t[2] = "t" -> "\t"
                       [] t[2] = "r" -> "\r"
                       [] OTHER -> t[2]>> \o Unescape(SubSeq(t, 3, Len(t)))
         ELSE <<Head(t)>> \o Unescape(Tail(t))

\* json.dumps(posts): one object per post, in list order, keys id, title, content.
JsonDumps(posts, ensureAscii) ==
    [i \in 1..Len(posts) |->
        [id |-> posts[i].id,
         title |-> Escape(posts[i].title, ensureAscii),
         content |-> Escape(posts[i].content, ensureAscii)]]

\* json.loads(text).
JsonLoads(text) ==
    [i \in 1..Len(text) |->
        [id |-> text[i].id,
         title |-> Unescape(text[i].title),
         content |-> Unescape(text[i].content)]]

NoFile == [exists |-> FALSE, text |-> <<>>]

seed ==
    << [id |-> 1,
        title |-> <<"F","i","r","s","t"," ","p","o","s","t">>,
        content |-> <<"T","h","i","s"," ","i","s"," ","t","h","e"," ",
                      "f","i","r","s","t"," ","p","o","s","t",".">>],
       [id |-> 2,
        title |-> <<"S","e","c","o","n","d"," ","p","o","s","t">>,
        content |-> <<"T","h","i","s"," ","i","s"," ","t","h","e"," ",
                      "s","e","c","o","n","d"," ","p","o","s","t",".">>] >>

\* A mutation of load_posts: the seed is also written over an empty collection.
load_posts_reseeding(f) ==
    LET f1 == IF ~f.exists \/ f.text = <<>>
              THEN [exists |-> TRUE, text |-> JsonDumps(seed, TRUE)]
              ELSE f
    IN  [file |-> f1, posts |-> JsonLoads(f1.text)]

\* load_posts(): the file after the call (created with the seed when it did
\* not exist) and the list read from it.
load_posts(f) ==
    LET f1 == IF ~f.exists
              THEN [exists |-> TRUE, text |-> JsonDumps(seed, TRUE)]
              ELSE f
    IN  [file |-> f1, posts |-> JsonLoads(f1.text)]

\* save_posts(posts): the file after the call.
save_posts(posts) == [exists |-> TRUE, text |-> JsonDumps(posts, FALSE)]

----------------------------------------------------------------------------
(* Helpers of the handlers.                                                *)

Ids(posts) == {posts[i].id : i \in 1..Len(posts)}

SetMax(S) == CHOOSE m \in S : \A x \in S : x <= m

\* A mutation of next_id: the number of posts plus one.
next_id_count(posts) == Len(posts) + 1

\* A mutation of next_id: a running counter, one more than every id that is
\* in the list or was ever returned.
next_id_counter(posts) == SetMax(Ids(posts) \cup allocated \cup {0}) + 1

\* A mutation of next_id: the smallest positive id not in the list.
next_id_first_gap(posts) ==
    CHOOSE k \in 1..(Len(posts) + 1) :
        /\ k \notin Ids(posts)
        /\ \A j \in 1..(k - 1) : j \in Ids(posts)

\* next_id(posts): max existing id + 1, or 1 if none.
next_id(posts) == (IF posts = <<>> THEN 0 ELSE SetMax(Ids(posts))) + 1

\* The first index whose post has the id (the for loop's first hit), 0 if none.
FirstIdx(posts, post_id) ==
    IF \E i \in 1..Len(posts) : posts[i].id = post_id
    THEN CHOOSE i \in 1..Len(posts) :
            /\ posts[i].id = post_id
            /\ \A j \in 1..(i - 1) : posts[j].id # post_id
    ELSE 0

\* What a handler leaves: the file after it and its response.
Resp(f, status, body) == [file |-> f, status |-> status, body |-> body]
ErrBody(msg) == [kind |-> "error", error |-> msg]
PostBody(p) == [kind |-> "post", post |-> p]
ListBody(ps) == [kind |-> "list", posts |-> ps]
NoBody == [kind |-> "empty"]

----------------------------------------------------------------------------
(* The handlers, as functions of the file and the request.                 *)

\* A mutation of get_posts: the newest post comes first.
get_posts_newest_first(f) ==
    LET ld == load_posts(f)
        n == Len(ld.posts)
    IN  Resp(ld.file, 200, ListBody([i \in 1..n |-> ld.posts[n + 1 - i]]))

\* get_posts(): GET /api/posts.
get_posts(f) ==
    LET ld == load_posts(f)
    IN  Resp(ld.file, 200, ListBody(ld.posts))

\* get_post(post_id): GET /api/posts/<id>.
get_post(f, post_id) ==
    LET ld == load_posts(f)
        i == FirstIdx(ld.posts, post_id)
    IN  IF i # 0
        THEN Resp(ld.file, 200, PostBody(ld.posts[i]))
        ELSE Resp(ld.file, 404, ErrBody("Post not found"))

\* A mutation of create_post: the new post is inserted at the front.
create_post_prepends(f, isJson, data) ==
    IF ~isJson
    THEN Resp(f, 415, ErrBody("Content-Type must be application/json"))
    ELSE LET title == Strip(GetOrEmpty(data, "title"))
             content == Strip(GetOrEmpty(data, "content"))
         IN  IF title = <<>> \/ content = <<>>
             THEN Resp(f, 400, ErrBody("Both 'title' and 'content' are required"))
             ELSE LET ld == load_posts(f)
                      post == [id |-> next_id(ld.posts),
                               title |-> title, content |-> content]
                  IN  Resp(save_posts(<<post>> \o ld.posts), 201, PostBody(post))

\* create_post(): POST /api/posts.
create_post(f, isJson, data) ==
    IF ~isJson
    THEN Resp(f, 415, ErrBody("Content-Type must be application/json"))
    ELSE LET title == Strip(GetOrEmpty(data, "title"))
             content == Strip(GetOrEmpty(data, "content"))
         IN  IF title = <<>> \/ content = <<>>
             THEN Resp(f, 400, ErrBody("Both 'title' and 'content' are required"))
             ELSE LET ld == load_posts(f)
                      post == [id |-> next_id(ld.posts),
                               title |-> title, content |-> content]
                  IN  Resp(save_posts(Append(ld.posts, post)), 201, PostBody(post))

\* A mutation of update_post: the list is saved as soon as the title is set,
\* before the content is validated.
update_post_saves_title_first(f, post_id, isJson, data) ==
    IF ~isJson
    THEN Resp(f, 415, ErrBody("Content-Type must be application/json"))
    ELSE
    LET ld == load_posts(f)
        i == FirstIdx(ld.posts, post_id)
        hasTitle == "title" \in DOMAIN data
        hasContent == "content" \in DOMAIN data
        title == Strip(PyStr(data["title"]))
        content == Strip(PyStr(data["content"]))
    IN  IF i = 0 THEN Resp(ld.file, 404, ErrBody("Post not found"))
        ELSE IF hasTitle /\ title = <<>>
        THEN Resp(ld.file, 400, ErrBody("Title cannot be empty"))
        ELSE
        LET posts1 == IF hasTitle
                      THEN [ld.posts EXCEPT ![i].title = title]
                      ELSE ld.posts
            f1 == IF hasTitle THEN save_posts(posts1) ELSE ld.file
        IN  IF hasContent /\ content = <<>>
            THEN Resp(f1, 400, ErrBody("Content cannot be empty"))
            ELSE
            LET posts2 == IF hasContent
                          THEN [posts1 EXCEPT ![i].content = content]
                          ELSE posts1
            IN  Resp(save_posts(posts2), 200, PostBody(posts2[i]))

\* A mutation of update_post: the title branch also assigns the content
\* (post["content"] = title).
update_post_title_into_content(f, post_id, isJson, data) ==
    IF ~isJson
    THEN Resp(f, 415, ErrBody("Content-Type must be application/json"))
    ELSE
    LET ld == load_posts(f)
        i == FirstIdx(ld.posts, post_id)
        hasTitle == "title" \in DOMAIN data
        hasContent == "content" \in DOMAIN data
        title == Strip(PyStr(data["title"]))
        content == Strip(PyStr(data["content"]))
    IN  IF i = 0 THEN Resp(ld.file, 404, ErrBody("Post not found"))
        ELSE IF hasTitle /\ title = <<>>
        THEN Resp(ld.file, 400, ErrBody("Title cannot be empty"))
        ELSE
        LET posts1 == IF hasTitle
                      THEN [ld.posts EXCEPT ![i].title = title,
                                            ![i].content = title]
                      ELSE ld.posts
        IN  IF hasContent /\ content = <<>>
            THEN Resp(ld.file, 400, ErrBody("Content cannot be empty"))
            ELSE
            LET posts2 == IF hasContent
                          THEN [posts1 EXCEPT ![i].content = content]
                          ELSE posts1
            IN  Resp(save_posts(posts2), 200, PostBody(posts2[i]))

\* A mutation of update_post: the fields are validated before the post is
\* looked up.
update_post_validates_first(f, post_id, isJson, data) ==
    IF ~isJson
    THEN Resp(f, 415, ErrBody("Content-Type must be application/json"))
    ELSE
    LET ld == load_posts(f)
        i == FirstIdx(ld.posts, post_id)
        hasTitle == "title" \in DOMAIN data
        hasContent == "content" \in DOMAIN data
        title == Strip(PyStr(data["title"]))
        content == Strip(PyStr(data["content"]))
    IN  IF hasTitle /\ title = <<>>
        THEN Resp(ld.file, 400, ErrBody("Title cannot be empty"))
        ELSE IF hasContent /\ content = <<>>
        THEN Resp(ld.file, 400, ErrBody("Content cannot be empty"))
        ELSE IF i = 0 THEN Resp(ld.file, 404, ErrBody("Post not found"))
        ELSE
        LET posts1 == IF hasTitle
                      THEN [ld.posts EXCEPT ![i].title = title]
                      ELSE ld.posts
            posts2 == IF hasContent
                      THEN [posts1 EXCEPT ![i].content = content]
                      ELSE posts1
        IN  Resp(save_posts(posts2), 200, PostBody(posts2[i]))

\* update_post(post_id): PUT /api/posts/<id>.  posts1 and posts2 are the
\* loaded list after the title and after the content assignment; only
\* save_posts writes it to the file.
update_post(f, post_id, isJson, data) ==
    IF ~isJson
    THEN Resp(f, 415, ErrBody("Content-Type must be application/json"))
    ELSE
    LET ld == load_posts(f)
        i == FirstIdx(ld.posts, post_id)
        hasTitle == "title" \in DOMAIN data
        hasContent == "content" \in DOMAIN data
        title == Strip(PyStr(data["title"]))
        content == Strip(PyStr(data["content"]))
    IN  IF i = 0 THEN Resp(ld.file, 404, ErrBody("Post not found"))
        ELSE IF hasTitle /\ title = <<>>
        THEN Resp(ld.file, 400, ErrBody("Title cannot be empty"))
        ELSE
        LET posts1 == IF hasTitle
                      THEN [ld.posts EXCEPT ![i].title = title]
                      ELSE ld.posts
        IN  IF hasContent /\ content = <<>>
            THEN Resp(ld.file, 400, ErrBody("Content cannot be empty"))
            ELSE
            LET posts2 == IF hasContent
                          THEN [posts1 EXCEPT ![i].content = content]
                          ELSE posts1
            IN  Resp(save_posts(posts2), 200, PostBody(posts2[i]))

\* A mutation of delete_post: the post at position post_id is removed.
delete_post_by_position(f, post_id) ==
    LET ld == load_posts(f)
        new_posts == [i \in 1..(Len(ld.posts) - 1) |->
                        IF i < post_id THEN ld.posts[i] ELSE ld.posts[i + 1]]
    IN  IF post_id \notin 1..Len(ld.posts)
        THEN Resp(ld.file, 404, ErrBody("Post not found"))
        ELSE Resp(save_posts(new_posts), 204, NoBody)

\* delete_post(post_id): DELETE /api/posts/<id>.
delete_post(f, post_id) ==
    LET ld == load_posts(f)
        new_posts == SelectSeq(ld.posts, LAMBDA p : p.id # post_id)
    IN  IF Len(new_posts) = Len(ld.posts)
        THEN Resp(ld.file, 404, ErrBody("Post not found"))
        ELSE Resp(save_posts(new_posts), 204, NoBody)

\* A mutation of search_posts: without a query every post is returned.
search_posts_all_without_query(f, args) ==
    LET title_q == Strip(ArgOrEmpty(args, "title"))
        content_q == Strip(ArgOrEmpty(args, "content"))
        ld == load_posts(f)
        results1 == IF title_q # <<>>
                    THEN SelectSeq(ld.posts,
                             LAMBDA p : Contains(Lower(p.title), Lower(title_q)))
                    ELSE ld.posts
        results2 == IF content_q # <<>>
                    THEN SelectSeq(results1,
                             LAMBDA p : Contains(Lower(p.content), Lower(content_q)))
                    ELSE results1
    IN  Resp(ld.file, 200, ListBody(results2))

\* A mutation of search_posts: with both queries a post matching either one
\* is returned.
search_posts_either(f, args) ==
    LET title_q == Strip(ArgOrEmpty(args, "title"))
        content_q == Strip(ArgOrEmpty(args, "content"))
    IN  IF title_q = <<>> /\ content_q = <<>>
        THEN Resp(f, 200, ListBody(<<>>))
        ELSE
        LET ld == load_posts(f)
            results == SelectSeq(ld.posts,
                           LAMBDA p :
                               \/ title_q # <<>>
                                    /\ Contains(Lower(p.title), Lower(title_q))
                               \/ content_q # <<>>
                                    /\ Contains(Lower(p.content), Lower(content_q)))
        IN  Resp(ld.file, 200, ListBody(results))

\* search_posts(): GET /api/posts/search.
search_posts(f, args) ==
    LET title_q == Strip(ArgOrEmpty(args, "title"))
        content_q == Strip(ArgOrEmpty(args, "content"))
    IN  IF title_q = <<>> /\ content_q = <<>>
        THEN Resp(f, 200, ListBody(<<>>))
        ELSE
        LET ld == load_posts(f)
            results1 == IF title_q # <<>>
                        THEN SelectSeq(ld.posts,
                                 LAMBDA p : Contains(Lower(p.title), Lower(title_q)))
                        ELSE ld.posts
            results2 == IF content_q # <<>>
                        THEN SelectSeq(results1,
                                 LAMBDA p : Contains(Lower(p.content), Lower(content_q)))
                        ELSE results1
        IN  Resp(ld.file, 200, ListBody(results2))

----------------------------------------------------------------------------
(* Requests.                                                               *)

\* Request bodies: JSON objects with any of the keys title and content.
TitleInputs == {JStr(<<" ">>), JStr(<<" ", "A", "\"", " ">>)}
ContentInputs == {JStr(<<" ">>), JStr(<<"é", " ">>)}

DataInputs ==
    {<<>>}
    \cup {[k \in {"title"} |-> t] : t \in TitleInputs}
    \cup {[k \in {"content"} |-> c] : c \in ContentInputs}
    \cup {[k \in {"title", "content"} |-> IF k = "title" THEN t ELSE c] :
             t \in TitleInputs, c \in ContentInputs}

\* The bodies SpecIds sends: a valid one and one whose title is null.
IdsDataInputs ==
    {[k \in {"title", "content"} |->
         IF k = "title" THEN JStr(<<"A">>) ELSE JStr(<<"b">>)],
     [k \in {"title", "content"} |->
         IF k = "title" THEN JNull ELSE JStr(<<"b">>)]}

NoData == <<>>

\* Query strings of a search: any of the parameters title and content.
TitleQueries == {<<" ">>, <<"P","O","S","T">>, <<"f","i","r","s","t"," ">>}
ContentQueries == {<<" ">>, <<"s","e","c","o","n","d">>}

ArgsInputs ==
    {<<>>}
    \cup {[k \in {"title"} |-> t] : t \in TitleQueries}
    \cup {[k \in {"content"} |-> c] : c \in ContentQueries}
    \cup {[k \in {"title", "content"} |-> IF k = "title" THEN t ELSE c] :
             t \in TitleQueries, c \in ContentQueries}

Request(op, id, isJson, data) ==
    [op |-> op, id |-> id, isJson |-> isJson, data |-> data]

NoRequest == Request("none", 0, FALSE, NoData)
NoResponse == [status |-> 0, body |-> NoBody]

\* The requests handled at the same time, and one that has not started.
Procs == {1, 2}
Idle == [pc |-> "idle", req |-> NoRequest, posts |-> <<>>, res |-> NoResponse,
         stale |-> FALSE]

----------------------------------------------------------------------------
(* Actions: one per handler.  A request that is not JSON carries no body   *)
(* the handler reads, so it is sent with an empty one.                     *)

Init ==
    /\ file = NoFile
    /\ req = NoRequest
    /\ res = NoResponse
    /\ allocated = {}
    /\ fresh = {}
    /\ reused = FALSE
    /\ torn = FALSE
    /\ proc = [p \in Procs |-> Idle]

\* A request handled alone, every write of the file succeeding: the file
\* and the response it leaves.
Answer(r) ==
    /\ file' = r.file
    /\ res' = [status |-> r.status, body |-> r.body]
    /\ UNCHANGED <<torn, proc>>

\* Spec does not record the history of ids; SpecIds does.
NoHistory == UNCHANGED <<allocated, fresh, reused>>

List ==
    /\ req' = Request("list", 0, FALSE, NoData)
    /\ Answer(get_posts(file))
    /\ NoHistory

Get(id) ==
    /\ req' = Request("get", id, FALSE, NoData)
    /\ Answer(get_post(file, id))
    /\ NoHistory

\* A POST request; it is not offered once the id it would assign exceeds cap.
DoCreate(isJson, data, cap) ==
    LET r == create_post(file, isJson, data)
    IN  /\ r.status = 201 => r.body.post.id <= cap
        /\ req' = Request("create", 0, isJson, data)
        /\ Answer(r)

Create(isJson, data) == DoCreate(isJson, data, MaxId) /\ NoHistory

Update(id, isJson, data) ==
    /\ req' = Request("update", id, isJson, data)
    /\ Answer(update_post(file, id, isJson, data))
    /\ NoHistory

DoDelete(id) ==
    /\ req' = Request("delete", id, FALSE, NoData)
    /\ Answer(delete_post(file, id))

Delete(id) == DoDelete(id) /\ NoHistory

Search(args) ==
    /\ req' = Request("search", 0, FALSE, args)
    /\ Answer(search_posts(file, args))
    /\ NoHistory

Next ==
    \/ List
    \/ \E id \in 1..MaxId : Get(id)
    \/ \E data \in DataInputs : Create(TRUE, data)
    \/ Create(FALSE, NoData)
    \/ \E id \in 1..MaxId, data \in DataInputs : Update(id, TRUE, data)
    \/ \E id \in 1..MaxId : Update(id, FALSE, NoData)
    \/ \E id \in 1..MaxId : Delete(id)
    \/ \E args \in ArgsInputs : Search(args)

Spec == Init /\ [][Next]_vars

----------------------------------------------------------------------------
(* Create and Delete alone, with the history of the ids handed out.        *)

\* The collection the file holds: what a load returns (the seed while the
\* file does not exist).
Collection(f) == IF f.exists THEN JsonLoads(f.text) ELSE seed

CreateIds(data) ==
    LET r == create_post(file, TRUE, data)
        id == r.body.post.id
    IN  /\ DoCreate(TRUE, data, MaxIdIds)
        /\ IF r.status = 201
           THEN /\ allocated' = allocated \cup {id}
                /\ fresh' = fresh \cup {id}
                /\ reused' = (id \in allocated)
           ELSE UNCHANGED <<allocated, fresh, reused>>

DeleteIds(id) ==
    LET r == delete_post(file, id)
        old == Ids(Collection(file))
    IN  /\ DoDelete(id)
        /\ fresh' = IF r.status = 204 /\ id = SetMax(old) THEN {} ELSE fresh
        /\ UNCHANGED <<allocated, reused>>

NextIds ==
    \/ \E data \in IdsDataInputs : CreateIds(data)
    \/ \E id \in 1..MaxIdIds : DeleteIds(id)

SpecIds == Init /\ [][NextIds]_vars

----------------------------------------------------------------------------
(* save_posts followed by load_posts, on collections whose strings hold    *)
(* the characters json.dumps escapes.                                      *)

SavedStrings ==
    { <<"\"", "\\", "n">>,
      <<"x", "\n", "é">>,
      <<"\\", "u", "0", "0", "e", "9">> }

\* Collections of up to MaxSaved posts, the ids descending.
SavedCollections ==
    UNION {[1..n -> [id : {0}, title : SavedStrings, content : SavedStrings]] :
              n \in 0..MaxSaved}
WithIds(x) == [i \in 1..Len(x) |-> [x[i] EXCEPT !.id = Len(x) + 1 - i]]

SaveAll(x) ==
    /\ req' = Request("save", 0, FALSE, x)
    /\ file' = save_posts(x)
    /\ res' = NoResponse
    /\ NoHistory
    /\ UNCHANGED <<torn, proc>>

LoadAll ==
    LET ld == load_posts(file)
    IN  /\ req' = [req EXCEPT !.op = "load"]
        /\ file' = ld.file
        /\ res' = [status |-> 0, body |-> ListBody(ld.posts)]
        /\ NoHistory
        /\ UNCHANGED <<torn, proc>>

NextRoundTrip ==
    \/ \E x \in SavedCollections : SaveAll(WithIds(x))
    \/ LoadAll

SpecRoundTrip == Init /\ [][NextRoundTrip]_vars

----------------------------------------------------------------------------
(* Create, Update and Delete when the write of save_posts can fail.        *)
(* Path.write_text opens the file for writing, which empties it, and then  *)
(* writes the text: the call raises OSError either at the open, the file   *)
(* left as it was, or at the write, the file left with a prefix of the     *)
(* text.  No handler catches the exception, so the request is answered     *)
(* 500.  A file cut short is not JSON: json.loads raises in every later    *)
(* load_posts, answered 500 as well.  The write of the seed in load_posts  *)
(* is taken to succeed.                                                    *)

WriteOutcomes == {"written", "refused", "cut"}

ServerError == [status |-> 500, body |-> NoBody]

IODataInputs == IdsDataInputs \cup {NoData}

\* The handler went through load_posts / through save_posts; r is its
\* result when every write succeeds.
Loaded(op, r) == op # "create" \/ r.status = 201
Saved(r) == r.status \in {200, 201, 204}

AnswerIO(op, r, w) ==
    /\ IF torn /\ Loaded(op, r)
       THEN /\ res' = ServerError
            /\ UNCHANGED <<file, torn>>
       ELSE IF ~Saved(r) \/ w = "written"
       THEN /\ res' = [status |-> r.status, body |-> r.body]
            /\ file' = r.file
            /\ UNCHANGED torn
       ELSE IF w = "refused"
       THEN /\ res' = ServerError
            /\ file' = load_posts(file).file
            /\ UNCHANGED torn
       ELSE /\ res' = ServerError
            /\ \E k \in 0..Len(r.file.text) :
                   file' = [exists |-> TRUE, text |-> SubSeq(r.file.text, 1, k)]
            /\ torn' = TRUE
    /\ NoHistory
    /\ UNCHANGED proc

CreateIO(data, w) ==
    LET r == create_post(file, TRUE, data)
    IN  /\ r.status = 201 => r.body.post.id <= MaxId
        /\ req' = Request("create", 0, TRUE, data)
        /\ AnswerIO("create", r, w)

UpdateIO(id, data, w) ==
    /\ req' = Request("update", id, TRUE, data)
    /\ AnswerIO("update", update_post(file, id, TRUE, data), w)

DeleteIO(id, w) ==
    /\ req' = Request("delete", id, FALSE, NoData)
    /\ AnswerIO("delete", delete_post(file, id), w)

NextIO ==
    \/ \E data \in IODataInputs, w \in WriteOutcomes : CreateIO(data, w)
    \/ \E id \in 1..MaxId, data \in IODataInputs, w \in WriteOutcomes :
           UpdateIO(id, data, w)
    \/ \E id \in 1..MaxId, w \in WriteOutcomes : DeleteIO(id, w)

SpecIO == Init /\ [][NextIO]_vars

----------------------------------------------------------------------------
(* Two requests handled at the same time, as the threaded development      *)
(* server of app.run does.  A handler takes no lock: between its           *)
(* load_posts and its save_posts the other request may load and save.      *)
(* load_posts and save_posts are each one step.  At most two requests are  *)
(* being handled at any time.                                              *)

\* The bodies sent: a valid one, and one whose title is blank.
ConcValid ==
    [k \in {"title", "content"} |->
        IF k = "title" THEN JStr(<<" ", "A", " ">>) ELSE JStr(<<"b">>)]
ConcBlank == [k \in {"title"} |-> JStr(<<" ">>)]

ConcRequests ==
    {Request("create", 0, TRUE, data) : data \in {ConcValid, ConcBlank}}
    \cup {Request("update", id, TRUE, ConcValid) : id \in 1..MaxIdConc}
    \cup {Request("update", 1, TRUE, ConcBlank)}
    \cup {Request("delete", id, FALSE, NoData) : id \in 1..MaxIdConc}

Handle(f, r) ==
    CASE r.op = "create" -> create_post(f, r.isJson, r.data)
      [] r.op = "update" -> update_post(f, r.id, r.isJson, r.data)
      [] r.op = "delete" -> delete_post(f, r.id)

\* The handler from the return of its load_posts on: what it does with
\* the list it loaded.
Continue(posts, r) == Handle(save_posts(posts), r)

\* The handler up to the return of load_posts; a Create whose body is not
\* valid answers before it loads.
ConcBegin(p, r) ==
    LET early == Handle(file, r)
        ld == load_posts(file)
    IN  /\ proc[p].pc = "idle"
        /\ IF ~Loaded(r.op, early)
           THEN /\ proc' = [proc EXCEPT ![p] =
                       [pc |-> "done", req |-> r, posts |-> <<>>,
                        res |-> [status |-> early.status, body |-> early.body],
                        stale |-> FALSE]]
                /\ UNCHANGED file
           ELSE /\ r.op = "create" => next_id(ld.posts) <= MaxIdConc
                /\ proc' = [proc EXCEPT ![p] =
                       [pc |-> "loaded", req |-> r, posts |-> ld.posts,
                        res |-> NoResponse, stale |-> FALSE]]
                /\ file' = ld.file
        /\ UNCHANGED <<req, res, torn>>
        /\ NoHistory

\* A mutation of ConcSave: the handler loads again before it changes the
\* list.
ConcSaveReloading(p) ==
    LET r == Handle(file, proc[p].req)
    IN  /\ proc[p].pc = "loaded"
        /\ file' = r.file
        /\ proc' = [q \in Procs |->
               IF q = p
               THEN [proc[p] EXCEPT !.pc = "done", !.posts = <<>>,
                        !.res = [status |-> r.status, body |-> r.body]]
               ELSE IF Saved(r) /\ proc[q].pc = "loaded"
               THEN [proc[q] EXCEPT !.stale = TRUE]
               ELSE proc[q]]
        /\ UNCHANGED <<req, res, torn>>
        /\ NoHistory

\* A mutation of ConcSave: a Create adds the post it built from the list
\* it loaded to the list the file holds now.
ConcSaveMerging(p) ==
    LET r == Continue(proc[p].posts, proc[p].req)
        now == load_posts(file).posts
    IN  /\ proc[p].pc = "loaded"
        /\ file' = IF r.status = 201 THEN save_posts(Append(now, r.body.post))
                   ELSE IF Saved(r) THEN r.file ELSE file
        /\ proc' = [q \in Procs |->
               IF q = p
               THEN [proc[p] EXCEPT !.pc = "done", !.posts = <<>>,
                        !.res = [status |-> r.status, body |-> r.body]]
               ELSE IF Saved(r) /\ proc[q].pc = "loaded"
               THEN [proc[q] EXCEPT !.stale = TRUE]
               ELSE proc[q]]
        /\ UNCHANGED <<req, res, torn>>
        /\ NoHistory

\* The handler from the return of load_posts to its response: it saves the
\* list it loaded, changed, whatever the file holds by now.  A request that
\* loaded and has not saved yet is stale from then on.
ConcSave(p) ==
    LET r == Continue(proc[p].posts, proc[p].req)
    IN  /\ proc[p].pc = "loaded"
        /\ file' = IF Saved(r) THEN r.file ELSE file
        /\ proc' = [q \in Procs |->
               IF q = p
               THEN [proc[p] EXCEPT !.pc = "done", !.posts = <<>>,
                        !.res = [status |-> r.status, body |-> r.body]]
               ELSE IF Saved(r) /\ proc[q].pc = "loaded"
               THEN [proc[q] EXCEPT !.stale = TRUE]
               ELSE proc[q]]
        /\ UNCHANGED <<req, res, torn>>
        /\ NoHistory

\* The response is sent.
ConcReturn(p) ==
    /\ proc[p].pc = "done"
    /\ proc' = [proc EXCEPT ![p] = Idle]
    /\ UNCHANGED <<file, req, res, torn>>
    /\ NoHistory

NextConc ==
    \/ \E p \in Procs, r \in ConcRequests : ConcBegin(p, r)
    \/ \E p \in Procs : ConcSave(p)
    \/ \E p \in Procs : ConcReturn(p)

SpecConc == Init /\ [][NextConc]_vars

----------------------------------------------------------------------------
(* Vocabulary of the properties.                                           *)

\* The string has a character that is not whitespace.
HasText(s) == \E i \in 1..Len(s) : ~IsSpace(s[i])

\* t is s without its leading and trailing whitespace.
IsTrimOf(t, s) ==
    \E i \in 1..(Len(s) + 1), j \in 0..Len(s) :
        /\ t = SubSeq(s, i, j)
        /\ \A k \in 1..(i - 1) : IsSpace(s[k])
        /\ \A k \in (j + 1)..Len(s) : IsSpace(s[k])
        /\ t = <<>> \/ (~IsSpace(t[1]) /\ ~IsSpace(t[Len(t)]))

\* The key is in the body with a string that has text / that has none.
Supplied(data, key) == key \in DOMAIN data
SuppliedText(data, key) ==
    Supplied(data, key) /\ data[key].kind = "str" /\ HasText(data[key].val)
SuppliedBlank(data, key) ==
    Supplied(data, key) /\ data[key].kind = "str" /\ ~HasText(data[key].val)

\* The sequence without its i-th element.
RemoveAt(q, i) == SubSeq(q, 1, i - 1) \o SubSeq(q, i + 1, Len(q))

\* The step just taken answered the operation with the status.
Answered(op, status) == req'.op = op /\ res'.status = status

\* The state is the one a request of the operation left, with the status.
Was(op, status) == req.op = op /\ res.status = status

\* The step just taken is a failed operation: NotFound or InvalidInput.
Failed ==
    \/ req'.op \in {"get", "update", "delete"} /\ res'.status = 404
    \/ req'.op \in {"create", "update"} /\ res'.status = 400

----------------------------------------------------------------------------
(* C1: in every reachable state the ids of the posts of the persisted      *)
(* collection are pairwise distinct.                                       *)
C1_DistinctIds ==
    LET posts == Collection(file)
    IN  \A i, j \in 1..Len(posts) : i # j => posts[i].id # posts[j].id

\* A post was created after post 1 had been deleted.
C1_Witness ==
    /\ Was("create", 201)
    /\ 1 \notin Ids(Collection(file))
    /\ Len(Collection(file)) >= 2

(* C2: in every reachable state every stored post has a title and a        *)
(* content with text: neither is empty or whitespace-only.                 *)
C2_NonEmptyFields ==
    LET posts == Collection(file)
    IN  \A i \in 1..Len(posts) : HasText(posts[i].title) /\ HasText(posts[i].content)

\* An Update stored a title that was sent with whitespace around it.
C2_Witness ==
    /\ Was("update", 200)
    /\ SuppliedText(req.data, "title")
    /\ req.data["title"].val # res.body.post.title
    /\ \E i \in 1..Len(Collection(file)) : Collection(file)[i] = res.body.post

(* C3: a Create whose title and content both have text succeeds with an id *)
(* greater than every id the collection held before it, and a Get of that  *)
(* id right after it returns the post with the trimmed title and content.  *)
C3_CreateThenGet ==
    [][/\ ( /\ req'.op = "create" /\ req'.isJson
            /\ SuppliedText(req'.data, "title")
            /\ SuppliedText(req'.data, "content") )
          => /\ res'.status = 201
             /\ \A x \in Ids(Collection(file)) : res'.body.post.id > x
       /\ ( /\ Was("create", 201)
            /\ req'.op = "get" /\ req'.id = res.body.post.id )
          => /\ res'.status = 200
             /\ res'.body.post.id = req'.id
             /\ IsTrimOf(res'.body.post.title, req.data["title"].val)
             /\ IsTrimOf(res'.body.post.content, req.data["content"].val)
             /\ HasText(res'.body.post.title) /\ HasText(res'.body.post.content)
      ]_vars

\* A Create succeeded on a title sent with whitespace around it.
C3_Witness ==
    /\ Was("create", 201)
    /\ req.data["title"].val # res.body.post.title
    /\ res.body.post = Collection(file)[Len(Collection(file))]

(* C4: the id a successful Create assigns is 1 on an empty collection and  *)
(* otherwise one more than the greatest id in the collection, whatever ids *)
(* were handed out before and have been deleted.                           *)
C4_MaxPlusOne ==
    [][Answered("create", 201) =>
         LET old == Ids(Collection(file))
             id == res'.body.post.id
         IN  /\ old = {} => id = 1
             /\ old # {} => (id - 1) \in old /\ \A x \in old : x < id
      ]_vars

\* A Create on the emptied collection returned 1 although greater ids had
\* been handed out.
C4_Witness ==
    /\ Was("create", 201)
    /\ res.body.post.id = 1
    /\ \E a \in allocated : a > 1

(* C5: with ids {1,2,5} a Create assigns 6; deleting 5 leaves {1,2}, and   *)
(* the Create after that deletion assigns 3.                               *)
C5_Scenario ==
    [][/\ (Ids(Collection(file)) = {1, 2, 5} /\ Answered("create", 201))
          => res'.body.post.id = 6
       /\ (Ids(Collection(file)) = {1, 2, 5} /\ req'.op = "delete" /\ req'.id = 5)
          => res'.status = 204 /\ Ids(Collection(file')) = {1, 2}
       /\ ( /\ Was("delete", 204) /\ req.id = 5
            /\ Ids(Collection(file)) = {1, 2}
            /\ Answered("create", 201) )
          => res'.body.post.id = 3
      ]_vars

\* Id 5 had been handed out, the maximum was deleted, and the Create that
\* followed on {1,2} returned 3.
C5_Witness ==
    /\ Was("create", 201)
    /\ res.body.post.id = 3
    /\ Ids(Collection(file)) = {1, 2, 3}
    /\ 5 \in allocated
    /\ fresh = {3}

(* C6: a Create returns an id that an earlier Create returned only if the  *)
(* post holding the maximum id was deleted between the two Creates.        *)
C6_ReuseOnlyAfterMaxDeleted ==
    [][(Answered("create", 201) /\ res'.body.post.id \in allocated)
         => res'.body.post.id \notin fresh
      ]_vars

\* A Create returned an id that an earlier Create had returned.
C6_Witness == Was("create", 201) /\ reused

(* C7: an Update of an existing post in which a supplied field has no text *)
(* answers 400 and leaves the persisted collection as it was, also when a  *)
(* title with text comes with a content without.                           *)
C7_FailedUpdateAppliesNothing ==
    [][( /\ req'.op = "update" /\ req'.isJson
         /\ req'.id \in Ids(Collection(file))
         /\ SuppliedBlank(req'.data, "title") \/ SuppliedBlank(req'.data, "content") )
         => res'.status = 400 /\ Collection(file') = Collection(file)
      ]_vars

\* An Update with a title with text and a content without was refused.
C7_Witness ==
    /\ Was("update", 400)
    /\ SuppliedText(req.data, "title")
    /\ SuppliedBlank(req.data, "content")
    /\ req.id \in Ids(Collection(file))

(* C8, as claimed: every failed operation leaves the storage as it was,    *)
(* also storage that was never initialized.                                *)
C8_FailedLeavesStorage == [][Failed => file' = file]_vars

(* C8, amended: every failed operation leaves the persisted collection as  *)
(* it was, and an existing file as it was; on a file that does not exist a *)
(* failed Create leaves it absent and a failed Get, Update or Delete       *)
(* creates it with the seed.                                               *)
C8_FailedLeavesCollection ==
    [][Failed =>
         /\ Collection(file') = Collection(file)
         /\ file.exists => file' = file
         /\ ~file.exists =>
               IF req'.op = "create" THEN file' = file
               ELSE file'.exists /\ JsonLoads(file'.text) = seed
      ]_vars

\* A Delete of an id that is not there was refused, on a file that exists
\* and holds posts.
C8_Witness ==
    /\ Was("delete", 404)
    /\ file.exists
    /\ Collection(file) # <<>>
    /\ req.id \notin Ids(Collection(file))

(* C9: a successful Delete removes exactly the post with the id, the other *)
(* posts keeping their fields and order, and a Get of the id right after   *)
(* it answers 404.                                                         *)
C9_DeleteRemovesExactlyOne ==
    [][/\ Answered("delete", 204)
          => \E i \in 1..Len(Collection(file)) :
                /\ Collection(file)[i].id = req'.id
                /\ Collection(file') = RemoveAt(Collection(file), i)
       /\ (Was("delete", 204) /\ req'.op = "get" /\ req'.id = req.id)
          => res'.status = 404
      ]_vars

\* A post between two others was deleted.
C9_Witness ==
    /\ Was("delete", 204)
    /\ \E x, y \in Ids(Collection(file)) : x < req.id /\ req.id < y

(* C10: a successful Update changes only the supplied fields of the post   *)
(* with the id: ids, order, the other posts and the fields not supplied    *)
(* stay, and with no field supplied the collection stays.                  *)
C10_UpdateFrame ==
    [][Answered("update", 200) =>
         LET old == Collection(file)
             new == Collection(file')
         IN  /\ Len(new) = Len(old)
             /\ req'.id \in Ids(old)
             /\ \A i \in 1..Len(old) :
                   /\ new[i].id = old[i].id
                   /\ old[i].id # req'.id => new[i] = old[i]
                   /\ ~Supplied(req'.data, "title") => new[i].title = old[i].title
                   /\ ~Supplied(req'.data, "content") => new[i].content = old[i].content
             /\ DOMAIN req'.data = {} => new = old
      ]_vars

\* An Update with only a title changed the title of one of several posts.
C10_Witness ==
    /\ Was("update", 200)
    /\ DOMAIN req.data = {"title"}
    /\ res.body.post.title # seed[1].title
    /\ res.body.post.id = 1
    /\ Len(Collection(file)) >= 2
    /\ res.body.post.content = seed[1].content

----------------------------------------------------------------------------
(* Vocabulary of the search properties.                                    *)

\* The two characters are the same letter, whatever their case.
SameLetter(a, b) ==
    a = b \/ \E k \in 1..Len(Upper) : {a, b} = {Upper[k], LowerOf[k]}

\* hay has needle as a contiguous substring, case ignored.
ContainsIgnoringCase(hay, needle) ==
    \E off \in 0..(Len(hay) - Len(needle)) :
        \A k \in 1..Len(needle) : SameLetter(hay[off + k], needle[k])

\* The query parameter as sent ("" when absent), and without the
\* whitespace around it.
RawQuery(args, key) == IF key \in DOMAIN args THEN args[key] ELSE <<>>
Query(args, key) ==
    LET raw == RawQuery(args, key)
        text == {i \in 1..Len(raw) : ~IsSpace(raw[i])}
    IN  IF text = {} THEN <<>>
        ELSE SubSeq(raw, CHOOSE i \in text : \A k \in text : i <= k,
                         CHOOSE j \in text : \A k \in text : k <= j)

\* The post is one the queries select.
Selected(p, args) ==
    /\ HasText(RawQuery(args, "title"))
          => ContainsIgnoringCase(p.title, Query(args, "title"))
    /\ HasText(RawQuery(args, "content"))
          => ContainsIgnoringCase(p.content, Query(args, "content"))

\* q is a subsequence of s: its elements, in the order of s.
RECURSIVE IsSubsequence(_, _)
IsSubsequence(q, s) ==
    IF q = <<>> THEN TRUE
    ELSE IF s = <<>> THEN FALSE
    ELSE IF Head(q) = Head(s) THEN IsSubsequence(Tail(q), Tail(s))
    ELSE IsSubsequence(q, Tail(s))

(* C11: a successful Create leaves the previous collection, every post     *)
(* unchanged and in the same order, followed by the new post as the last   *)
(* element.                                                                *)
C11_CreateAppends ==
    [][Answered("create", 201) =>
         LET old == Collection(file)
             new == Collection(file')
         IN  /\ Len(new) = Len(old) + 1
             /\ \A i \in 1..Len(old) : new[i] = old[i]
             /\ new[Len(new)] = res'.body.post
      ]_vars

\* A Create added a fourth post behind three others, the first of which had
\* been updated.
C11_Witness ==
    /\ Was("create", 201)
    /\ Len(Collection(file)) >= 3
    /\ Collection(file)[1].id = 1
    /\ Collection(file)[1].title # seed[1].title
    /\ Collection(file)[Len(Collection(file))].id = res.body.post.id

(* C12: a Search whose queries are both absent, empty or whitespace-only   *)
(* returns the empty sequence, whatever the collection holds.              *)
C12_NoQueryNoResults ==
    [][( /\ req'.op = "search"
         /\ ~HasText(RawQuery(req'.data, "title"))
         /\ ~HasText(RawQuery(req'.data, "content")) )
         => res'.status = 200 /\ res'.body.posts = <<>>
      ]_vars

\* A Search with whitespace-only queries returned nothing although posts
\* exist.
C12_Witness ==
    /\ Was("search", 200)
    /\ DOMAIN req.data = {"title", "content"}
    /\ ~HasText(req.data["title"]) /\ ~HasText(req.data["content"])
    /\ res.body.posts = <<>>
    /\ Len(Collection(file)) >= 2

(* C13: a Search with a query that has text returns, in collection order,  *)
(* exactly the posts whose title contains the title query and whose        *)
(* content contains the content query (each when it has text), case        *)
(* ignored.                                                                *)
C13_SearchSelects ==
    [][( /\ req'.op = "search"
         /\ HasText(RawQuery(req'.data, "title"))
               \/ HasText(RawQuery(req'.data, "content")) )
         => LET posts == Collection(file)
                found == res'.body.posts
            IN  /\ res'.status = 200
                /\ IsSubsequence(found, posts)
                /\ \A i \in 1..Len(posts) :
                      Selected(posts[i], req'.data)
                         <=> \E k \in 1..Len(found) : found[k] = posts[i]
      ]_vars

\* A Search with both queries returned the second seed post alone: the
\* first matches the title query, in another case, but not the content query.
C13_Witness ==
    /\ Was("search", 200)
    /\ DOMAIN req.data = {"title", "content"}
    /\ req.data["title"] = <<"P","O","S","T">>
    /\ req.data["content"] = <<"s","e","c","o","n","d">>
    /\ res.body.posts = <<seed[2]>>
    /\ \E i \in 1..Len(Collection(file)) : Collection(file)[i] = seed[1]

(* C14: a load returns the seed on a file that does not exist, which       *)
(* creates the file; once the file exists it stays, and a load returns     *)
(* what it holds, also when that is the empty collection.                  *)
C14_SeedOnlyOnce ==
    [][/\ file.exists => file'.exists
       /\ (req'.op = "list" /\ ~file.exists)
             => res'.body.posts = seed /\ file'.exists
       /\ (req'.op = "list" /\ file.exists)
             => res'.body.posts = JsonLoads(file.text) /\ file' = file
       /\ (Was("delete", 204) /\ file.text = <<>> /\ req'.op \in {"list", "get", "search"})
             => file'.text = <<>>
      ]_vars

\* A List of the emptied collection returned no post.
C14_Witness ==
    /\ Was("list", 200)
    /\ file.exists
    /\ res.body.posts = <<>>

(* C17: an Update answers 404 when no post has the id, whatever the        *)
(* fields; otherwise 400 "Title cannot be empty" when a title without text *)
(* is supplied; otherwise 400 "Content cannot be empty" when a content     *)
(* without text is supplied; otherwise 200.                                *)
C17_UpdateOutcomeOrder ==
    [][(req'.op = "update" /\ req'.isJson) =>
         IF req'.id \notin Ids(Collection(file))
         THEN res'.status = 404 /\ res'.body.error = "Post not found"
         ELSE IF SuppliedBlank(req'.data, "title")
         THEN res'.status = 400 /\ res'.body.error = "Title cannot be empty"
         ELSE IF SuppliedBlank(req'.data, "content")
         THEN res'.status = 400 /\ res'.body.error = "Content cannot be empty"
         ELSE res'.status = 200
      ]_vars

\* An Update of a post that is not there, with both fields blank, was
\* answered 404.
C17_Witness ==
    /\ Was("update", 404)
    /\ SuppliedBlank(req.data, "title") /\ SuppliedBlank(req.data, "content")
    /\ Collection(file) # <<>>

(* C20, as claimed: List, Get and Search leave the storage as it was, also *)
(* storage that was never initialized, and List returns the collection in  *)
(* its stored order.                                                       *)
C20_ReadsLeaveStorage ==
    [][/\ req'.op \in {"list", "get", "search"} => file' = file
       /\ req'.op = "list" => res'.body.posts = Collection(file)
      ]_vars

(* C20, amended: List, Get and Search leave the persisted collection as it *)
(* was, and an existing file as it was; on a file that does not exist,     *)
(* List, Get and a Search with a query that has text create it with the    *)
(* seed, and a Search without one leaves it absent.  List returns the      *)
(* collection in its stored order.                                         *)
C20_ReadsLeaveCollection ==
    [][/\ req'.op \in {"list", "get", "search"} =>
             /\ Collection(file') = Collection(file)
             /\ file.exists => file' = file
             /\ ~file.exists =>
                   IF /\ req'.op = "search"
                      /\ ~HasText(RawQuery(req'.data, "title"))
                      /\ ~HasText(RawQuery(req'.data, "content"))
                   THEN file' = file
                   ELSE file'.exists /\ JsonLoads(file'.text) = seed
       /\ req'.op = "list" => res'.status = 200 /\ res'.body.posts = Collection(file)
      ]_vars

\* A List returned three or more posts from an existing file.
C20_Witness ==
    /\ Was("list", 200)
    /\ file.exists
    /\ Len(res.body.posts) >= 3
    /\ res.body.posts = Collection(file)

(* C15: a load that follows a save of a collection returns that            *)
(* collection, the same posts in the same order, and leaves the file as    *)
(* the save wrote it.                                                      *)
C15_RoundTrip ==
    [][(req.op = "save" /\ req'.op = "load")
         => res'.body.posts = req.data /\ file' = file
      ]_vars

\* A load returned the two posts saved, whose text in the file is escaped.
C15_Witness ==
    /\ req.op = "load"
    /\ Len(req.data) = 2
    /\ res.body.posts = req.data
    /\ file.text[1].title # req.data[1].title
    /\ req.data[1] # req.data[2]

(* C16: a Create, Update or Delete whose save fails is answered with the   *)
(* failure, and leaves the file a loadable one that holds the collection   *)
(* it held before the request (nothing partly written).                    *)
C16_SaveFailureLeavesCollection ==
    [][(~torn /\ res'.status = 500)
         => /\ ~torn'
            /\ Collection(file') = Collection(file)
      ]_vars

\* Request p saves in this step, after the other request saved since p loaded.
SavesStale(p) ==
    /\ proc[p].pc = "loaded"
    /\ proc[p].stale
    /\ proc'[p].pc = "done"
    /\ proc'[p].res.status \in {200, 201, 204}

\* The ids request p leaves in the list it saves: those it loaded, less the
\* one it deleted, plus the one it created.
IdsLeftBy(p) ==
    LET loaded == Ids(proc[p].posts)
    IN  CASE proc[p].req.op = "create" ->
                 loaded \cup {proc'[p].res.body.post.id}
          [] proc[p].req.op = "delete" -> loaded \ {proc[p].req.id}
          [] OTHER -> loaded

(* C18: the last writer wins.  When a request saves after the other        *)
(* request saved since it loaded, the collection it leaves is made of the  *)
(* list it loaded and its own change only: every post the other request    *)
(* created since is gone, every post it deleted is back, and every post    *)
(* the saving request did not touch is as it was loaded.                   *)
C18_LastWriterWins ==
    [][\A p \in Procs :
         SavesStale(p) =>
            LET now == Collection(file')
            IN  /\ Ids(now) = IdsLeftBy(p)
                /\ \A i \in 1..Len(now) :
                      \/ now[i] \in {proc[p].posts[j] : j \in 1..Len(proc[p].posts)}
                      \/ /\ proc[p].req.op \in {"create", "update"}
                         /\ now[i] = proc'[p].res.body.post
      ]_vars

\* Both requests are answered; one is a Create that returned its post, the
\* other a Delete of another post that loaded before the Create saved and
\* saved after it: the post the Create returned is not in the collection.
C18_Witness ==
    \E p \in Procs, q \in Procs :
        /\ p # q
        /\ proc[p].pc = "done" /\ proc[q].pc = "done"
        /\ proc[p].req.op = "create" /\ proc[p].res.status = 201
        /\ proc[q].req.op = "delete" /\ proc[q].res.status = 204
        /\ proc[q].stale
        /\ proc[q].req.id # proc[p].res.body.post.id
        /\ proc[p].res.body.post.id \notin Ids(Collection(file))

(* C19: whatever the order of the loads and saves of two requests handled  *)
(* at the same time, the collection in the file has no two posts with the  *)
(* same id, and every post has a title and a content with text in them.    *)
C19_ConcurrentStaysValid ==
    LET posts == Collection(file)
    IN  /\ \A i, j \in 1..Len(posts) : posts[i].id = posts[j].id => i = j
        /\ \A i \in 1..Len(posts) :
              HasText(posts[i].title) /\ HasText(posts[i].content)

\* Two Creates that loaded the same list both returned a post with the same
\* id; the collection holds that id once.
C19_Witness ==
    /\ proc[1].pc = "done" /\ proc[2].pc = "done"
    /\ proc[1].req.op = "create" /\ proc[1].res.status = 201
    /\ proc[2].req.op = "create" /\ proc[2].res.status = 201
    /\ proc[1].stale \/ proc[2].stale
    /\ proc[1].res.body.post.id = proc[2].res.body.post.id
    /\ Cardinality({i \in 1..Len(Collection(file)) :
           Collection(file)[i].id = proc[1].res.body.post.id}) = 1

====
